---- MODULE Spec2Model ----
(***************************************************************************)
(* InterpretadorDefesa (src/main.py): the POST /analisar pipeline.         *)
(*                                                                         *)
(* One request is followed from its arrival to its outcome: credential     *)
(* check, context assembly, the outbound call, json.loads, the empty       *)
(* branch, the per-element Argumento construction, the final               *)
(* ResultadoFinal, and the three except clauses.                           *)
(*                                                                         *)
(* Conventions                                                             *)
(*  - a decoded JSON value is a record [t, n, isint, s, l]; t is its Python *)
(*    type ("absent" stands for a key the dict does not hold), numbers are *)
(*    kept in tenths (n = 75 is 7.5) with isint telling int from float;    *)
(*  - a text is a run-length sequence of [ch, n] (n >= 1, adjacent runs    *)
(*    differ), so that 4000-character documents stay small;                *)
(*  - a message built by an f-string is the sequence of its pieces.        *)
(***************************************************************************)
EXTENDS Integers, Sequences, FiniteSets, TLC

VARIABLES
    env_key,          \* os.getenv("OPENAI_API_KEY"): "None", "" or a key
    pydantic_major,   \* major version of the installed pydantic (1 or 2)
    pc,               \* position of the request in analisar_impugnacao
    dados,            \* the ProcessoInput of the request
    contexto,         \* contexto_estruturado, the outbound user message
    calls,            \* calls made to openai.chat.completions.create
    upstream,         \* what the model service did with the call
    resultado_raw,    \* response.choices[0].message.content
    resultado_json,   \* json.loads(resultado_raw)
    idx,              \* position of the for loop in resultado_json["argumentos"]
    kwargs,           \* the keyword arguments evaluated for Argumento(...)
    argumentos,       \* the list argumentos built so far
    exc,              \* the exception in flight / bound to e
    outcome           \* what the caller gets: nothing yet, a result, an error

vars == <<env_key, pydantic_major, pc, dados, contexto, calls, upstream,
          resultado_raw, resultado_json, idx, kwargs, argumentos, exc, outcome>>

(***************************************************************************)
(* Bounds of the model.                                                    *)
(***************************************************************************)
MaxArgs == 2      \* longest "argumentos" list of the reply
RelBelow == 2     \* integer relevancia values run from 0 - RelBelow ...
RelAbove == 2     \* ... to 10 + RelAbove
ConfSlack == 2    \* confianca runs from -0.1 * ConfSlack to 1.0 + 0.1 * ConfSlack
DocSlack == 1     \* document lengths 0..DocSlack and 4000 -/+ DocSlack

(***************************************************************************)
(* Program constants.                                                      *)
(***************************************************************************)
LIMITE_TEXTO == 4000
TESTE_LEN == 189

CATEGORIAS ==
    {"PRESCRICAO", "DECADENCIA", "NULIDADE", "MERITO", "FORMAL", "PROCESSUAL", "OUTROS"}

(***************************************************************************)
(* Decoded JSON values.                                                    *)
(***************************************************************************)
J(t, n, isint, s, l) == [t |-> t, n |-> n, isint |-> isint, s |-> s, l |-> l]
Absent == J("absent", 0, FALSE, "", <<>>)
Null == J("null", 0, FALSE, "", <<>>)
NaN == J("nan", 0, FALSE, "", <<>>)
JInt(i) == J("num", 10 * i, TRUE, "", <<>>)
JFloat(tenths) == J("num", tenths, FALSE, "", <<>>)
JStr(s) == J("str", 0, FALSE, s, <<>>)
JList(l) == J("list", 0, FALSE, "", l)

\* dict.get(key, default)
DictGet(v, default) == IF v.t = "absent" THEN default ELSE v

\* Python orders numbers only: None, str and list against a number raise
\* TypeError; every comparison with nan is False.
Comparable(v) == v.t \in {"num", "nan"}
PyGt(a, b) == a.t = "num" /\ b.t = "num" /\ a.n > b.n
PyLt(a, b) == a.t = "num" /\ b.t = "num" /\ a.n < b.n
\* max(a, b) keeps a unless b > a; min(a, b) keeps a unless b < a
PyMax(a, b) == IF PyGt(b, a) THEN b ELSE a
PyMin(a, b) == IF PyLt(b, a) THEN b ELSE a

(***************************************************************************)
(* Texts.                                                                  *)
(***************************************************************************)
RECURSIVE TextLen(_)
TextLen(t) == IF t = <<>> THEN 0 ELSE Head(t).n + TextLen(Tail(t))

RECURSIVE CharAt(_, _)
CharAt(t, i) ==
    IF i <= Head(t).n THEN Head(t).ch ELSE CharAt(Tail(t), i - Head(t).n)

\* t[:k]
RECURSIVE Take(_, _)
Take(t, k) ==
    IF k <= 0 \/ t = <<>> THEN <<>>
    ELSE IF Head(t).n <= k THEN <<Head(t)>> \o Take(Tail(t), k - Head(t).n)
    ELSE <<[ch |-> Head(t).ch, n |-> k]>>

Run(ch, n) == IF n >= 1 THEN <<[ch |-> ch, n |-> n]>> ELSE <<>>
\* a document of len characters: "x", then "a"s, then "z"
MkDoc(len) ==
    Run("x", IF len >= 1 THEN 1 ELSE 0) \o Run("a", len - 2) \o Run("z", IF len >= 2 THEN 1 ELSE 0)

(***************************************************************************)
(* The request, the reply of the model service, and what json.loads makes  *)
(* of it.                                                                  *)
(***************************************************************************)
ProcessoInput(processo_id, texto, auto_infracao, contribuinte, valor_multa) ==
    [processo_id |-> processo_id, texto_impugnacao |-> texto,
     auto_infracao |-> auto_infracao, contribuinte |-> contribuinte,
     valor_multa |-> valor_multa]

\* an element of the "argumentos" list; isdict = FALSE is an element that is
\* no JSON object (a string, a number)
Elem(categoria, fundamento_legal, argumento, evidencias, relevancia, pagina_referencia) ==
    [isdict |-> TRUE, categoria |-> categoria, fundamento_legal |-> fundamento_legal,
     argumento |-> argumento, evidencias |-> evidencias, relevancia |-> relevancia,
     pagina_referencia |-> pagina_referencia]
NonDictElem ==
    [Elem(Absent, Absent, Absent, Absent, Absent, Absent) EXCEPT !.isdict = FALSE]

\* the value under "argumentos": absent, null, a list, or a number
ArgsAbsent == [t |-> "absent", items |-> <<>>]
ArgsNull == [t |-> "null", items |-> <<>>]
ArgsNum == [t |-> "num", items |-> <<>>]
ArgsList(items) == [t |-> "list", items |-> items]

\* the decoded reply; isdict = FALSE is valid JSON that is no object
Obj(args, resumo, confianca, alertas) ==
    [isdict |-> TRUE, argumentos |-> args, resumo |-> resumo,
     confianca |-> confianca, alertas |-> alertas]
NonDictJson == [Obj(ArgsAbsent, Absent, Absent, Absent) EXCEPT !.isdict = FALSE]

\* the service raises, answers without content, answers text that is no JSON,
\* or answers JSON text
ReplyRaise == [kind |-> "raise", valid |-> FALSE, value |-> NonDictJson]
ReplyNone == [kind |-> "none", valid |-> FALSE, value |-> NonDictJson]
ReplyBadText == [kind |-> "text", valid |-> FALSE, value |-> NonDictJson]
ReplyJson(v) == [kind |-> "text", valid |-> TRUE, value |-> v]

(***************************************************************************)
(* Input domains.                                                          *)
(***************************************************************************)
BaseElem(arg) ==
    Elem(JStr("PRESCRICAO"), JStr("Art. 173 CTN"), JStr(arg), JList(<<"e1">>), JInt(9), JStr("12"))

RelevanciaVals ==
    {Absent, Null, NaN, JStr("alta")}
        \cup {JInt(i) : i \in (0 - RelBelow)..(10 + RelAbove)}
        \cup {JFloat(t) : t \in {0 - 5, 70, 75, 125}}
CategoriaVals == {Absent, Null} \cup {JStr(c) : c \in CATEGORIAS \cup {"TRIBUTARIO"}}
EvidenciasVals == {Absent, Null, JStr("doc"), JList(<<>>)}
TextoVals == {Absent, Null}

\* the base element with one field varied
Elems ==
    {BaseElem("a"), BaseElem("b"), NonDictElem}
        \cup {[BaseElem("a") EXCEPT !.relevancia = v] : v \in RelevanciaVals}
        \cup {[BaseElem("a") EXCEPT !.categoria = v] : v \in CategoriaVals}
        \cup {[BaseElem("a") EXCEPT !.evidencias = v] : v \in EvidenciasVals}
        \cup {[BaseElem("a") EXCEPT !.fundamento_legal = v] : v \in TextoVals}
        \cup {[BaseElem("a") EXCEPT !.argumento = v] : v \in TextoVals}
        \cup {[BaseElem("a") EXCEPT !.pagina_referencia = v] : v \in TextoVals}
\* the elements longer lists are made of
ListElems ==
    {BaseElem("a"), BaseElem("b"), NonDictElem,
     [BaseElem("a") EXCEPT !.relevancia = JInt(0)],
     [BaseElem("b") EXCEPT !.relevancia = JInt(11)],
     [BaseElem("a") EXCEPT !.relevancia = Null],
     [BaseElem("b") EXCEPT !.relevancia = Absent],
     [BaseElem("a") EXCEPT !.categoria = JStr("TRIBUTARIO")]}
ArgLists ==
    {<<>>} \cup {<<e>> : e \in Elems}
        \cup UNION {[1..k -> ListElems] : k \in 2..MaxArgs}

ConfiancaVals ==
    {Absent, Null, NaN, JStr("alta"), JInt(0), JInt(1), JInt(2)}
        \cup {JFloat(t) : t \in (0 - ConfSlack)..(10 + ConfSlack)}
ResumoVals == {Absent, Null, JStr("Resumo do caso")}
AlertasVals == {Absent, Null, JList(<<>>), JList(<<"w1", "w2">>)}
FewArgs ==
    {ArgsAbsent, ArgsNull, ArgsNum, ArgsList(<<>>), ArgsList(<<BaseElem("a")>>),
     ArgsList(<<BaseElem("b"), BaseElem("a")>>)}

BaseObj(args) == Obj(args, JStr("Resumo do caso"), JFloat(8), JList(<<"w1">>))
Decoded ==
    {NonDictJson}
        \cup {BaseObj(ArgsList(l)) : l \in ArgLists}
        \cup {[BaseObj(a) EXCEPT !.confianca = v] : a \in FewArgs, v \in ConfiancaVals}
        \cup {[BaseObj(a) EXCEPT !.resumo = v] : a \in FewArgs, v \in ResumoVals}
        \cup {[BaseObj(a) EXCEPT !.alertas = v] : a \in FewArgs, v \in AlertasVals}
Replies == {ReplyRaise, ReplyNone, ReplyBadText} \cup {ReplyJson(v) : v \in Decoded}

DocLens ==
    (0..DocSlack) \cup ((LIMITE_TEXTO - DocSlack)..(LIMITE_TEXTO + DocSlack))
Submissions ==
    {ProcessoInput(IF len <= LIMITE_TEXTO THEN "P-1" ELSE "P-2", MkDoc(len), "", "", 0)
        : len \in DocLens}
\* the built-in sample of POST /teste
DadosTeste ==
    ProcessoInput("TESTE-001", Run("t", TESTE_LEN), "AI-TESTE-123", "Empresa Teste Ltda", 1000000)

Keys == {"None", "", "sk-key"}

(***************************************************************************)
(* Exceptions, results and failures.                                       *)
(***************************************************************************)
NoExc == [type |-> "none", status_code |-> 0, detail |-> <<>>]
HTTPException(status_code, detail) ==
    [type |-> "HTTPException", status_code |-> status_code, detail |-> detail]
PyError(type, msg) == [type |-> type, status_code |-> 0, detail |-> <<msg>>]

\* str(e). Starlette's HTTPException has a __str__ of "<status>: <detail>"
\* in recent releases and none in older ones, where str(e) is empty.
StrOf(e) ==
    IF e.type = "HTTPException"
    THEN {<<>>, <<ToString(e.status_code), ": ">> \o e.detail}
    ELSE {e.detail}

\* the handler with its generic clause written first
ExceptClauseGenericFirst(type) == "Exception"

\* the first except clause of the handler that matches the exception:
\* JSONDecodeError, OpenAIError, Exception (every exception here is one)
ExceptClause(type) ==
    IF type = "JSONDecodeError" THEN "JSONDecodeError"
    ELSE IF type = "OpenAIError" THEN "OpenAIError"
    ELSE "Exception"

Argumento(categoria, fundamento_legal, argumento, evidencias, relevancia, pagina_referencia) ==
    [categoria |-> categoria, fundamento_legal |-> fundamento_legal,
     argumento |-> argumento, evidencias |-> evidencias, relevancia |-> relevancia,
     pagina_referencia |-> pagina_referencia]
ResultadoFinal(processo_id, status, args, resumo, confianca, alertas) ==
    [processo_id |-> processo_id, status |-> status, argumentos |-> args,
     resumo |-> resumo, confianca |-> confianca, alertas |-> alertas]

NoResult == ResultadoFinal("", "", <<>>, "", JFloat(0), <<>>)
NoOutcome == [kind |-> "none", result |-> NoResult, status_code |-> 0, detail |-> <<>>]
Returned(r) == [kind |-> "result", result |-> r, status_code |-> 200, detail |-> <<>>]
Failed(status_code, detail) ==
    [kind |-> "error", result |-> NoResult, status_code |-> status_code, detail |-> detail]

(***************************************************************************)
(* pydantic's validation of the fields of Argumento and ResultadoFinal.    *)
(***************************************************************************)
StrOk(v) == v.t = "str"
ListStrOk(v) == v.t = "list"
FloatOk(v) == v.t \in {"num", "nan"}
\* an int field takes a number without fraction; pydantic 1 also takes one
\* with a fraction and truncates it, pydantic 2 rejects it
IntOk(v, major) == v.t = "num" /\ (v.n % 10 = 0 \/ major = 1)
ToInt(v) == IF v.n >= 0 THEN v.n \div 10 ELSE 0 - ((0 - v.n) \div 10)

ArgumentoOk(kw, major) ==
    /\ StrOk(kw.categoria)
    /\ StrOk(kw.fundamento_legal)
    /\ StrOk(kw.argumento)
    /\ ListStrOk(kw.evidencias)
    /\ IntOk(kw.relevancia, major)
    /\ StrOk(kw.pagina_referencia)
ArgumentoOf(kw) ==
    Argumento(kw.categoria.s, kw.fundamento_legal.s, kw.argumento.s, kw.evidencias.l,
              ToInt(kw.relevancia), kw.pagina_referencia.s)

(***************************************************************************)
(* The steps of analisar_impugnacao.                                       *)
(***************************************************************************)
\* the check written as "is not None": an empty key passes
KeyNotNone(key) == key # "None"

KeyConfigured(key) == key \notin {"None", ""}

\* {dados.valor_multa:,.2f}, the amount being kept in centavos
FormatValor(centavos) == [reais |-> centavos \div 100, centavos |-> centavos % 100]

\* the slice taken one character too long
TruncarOffByOne(texto) == Take(texto, LIMITE_TEXTO + 1)

Truncar(texto) == Take(texto, LIMITE_TEXTO)

Contexto(d) ==
    [processo_id |-> d.processo_id, auto_infracao |-> d.auto_infracao,
     contribuinte |-> d.contribuinte, valor_multa |-> FormatValor(d.valor_multa),
     documento |-> Truncar(d.texto_impugnacao)]

\* json.loads: the exception it raises ("none" when it returns)
JsonLoadsRaises(raw) ==
    IF raw.kind = "none" THEN "TypeError"
    ELSE IF ~raw.valid THEN "JSONDecodeError"
    ELSE "none"

\* the test written as "argumentos" not in resultado_json: an empty list passes
FalsyOnlyMissing(a) == a.t = "absent"

\* not resultado_json.get("argumentos")
Falsy(a) == a.t \in {"absent", "null"} \/ (a.t = "list" /\ a.items = <<>>)

ResultadoVazio(d) ==
    ResultadoFinal(d.processo_id, "NENHUM_ARGUMENTO_IDENTIFICADO", <<>>,
        "Nao foi possivel identificar argumentos juridicos claros no texto fornecido.",
        JFloat(1),
        <<"Texto pode estar truncado ou sem argumentos juridicos claros">>)

\* min(max(arg_data.get("relevancia", 5), 1), 10)
RelevanciaRaises(v) == ~Comparable(DictGet(v, JInt(5)))
\* min and max exchanged
CoerceRelevanciaSwapped(v) == PyMax(PyMin(DictGet(v, JInt(5)), JInt(1)), JInt(10))
CoerceRelevancia(v) == PyMin(PyMax(DictGet(v, JInt(5)), JInt(1)), JInt(10))

ArgumentoKwargs(arg_data) ==
    [categoria |-> DictGet(arg_data.categoria, JStr("OUTROS")),
     fundamento_legal |-> DictGet(arg_data.fundamento_legal, JStr("Nao especificado")),
     argumento |-> DictGet(arg_data.argumento, JStr("")),
     evidencias |-> DictGet(arg_data.evidencias, JList(<<>>)),
     relevancia |-> CoerceRelevancia(arg_data.relevancia),
     pagina_referencia |-> DictGet(arg_data.pagina_referencia, JStr(""))]
NoKwargs == ArgumentoKwargs(NonDictElem)

\* min(max(resultado_json.get("confianca", 0.5), 0.0), 1.0)
ConfiancaRaises(v) == ~Comparable(DictGet(v, JFloat(5)))
CoerceConfianca(v) == PyMin(PyMax(DictGet(v, JFloat(5)), JFloat(0)), JFloat(10))

ResultadoKwargs(rj) ==
    [resumo |-> DictGet(rj.resumo, JStr("Analise concluida com sucesso.")),
     confianca |-> CoerceConfianca(rj.confianca),
     alertas |-> DictGet(rj.alertas, JList(<<>>))]
ResultadoOk(kw) == StrOk(kw.resumo) /\ FloatOk(kw.confianca) /\ ListStrOk(kw.alertas)

(***************************************************************************)
(* The state machine.                                                      *)
(***************************************************************************)
Init ==
    /\ env_key \in Keys
    /\ pydantic_major \in {1, 2}
    /\ pc = "idle"
    /\ dados = ProcessoInput("", <<>>, "", "", 0)
    /\ contexto = Contexto(ProcessoInput("", <<>>, "", "", 0))
    /\ calls = 0
    /\ upstream = ReplyNone
    /\ resultado_raw = ReplyNone
    /\ resultado_json = NonDictJson
    /\ idx = 0
    /\ kwargs = NoKwargs
    /\ argumentos = <<>>
    /\ exc = NoExc
    /\ outcome = NoOutcome

\* POST /analisar with a request body
PostAnalisar ==
    /\ pc = "idle"
    /\ \E d \in Submissions : dados' = d
    /\ pc' = "check"
    /\ UNCHANGED <<env_key, pydantic_major, contexto, calls, upstream, resultado_raw,
                   resultado_json, idx, kwargs, argumentos, exc, outcome>>

\* POST /teste: the same pipeline on the built-in sample
PostTeste ==
    /\ pc = "idle"
    /\ dados' = DadosTeste
    /\ pc' = "check"
    /\ UNCHANGED <<env_key, pydantic_major, contexto, calls, upstream, resultado_raw,
                   resultado_json, idx, kwargs, argumentos, exc, outcome>>

\* if not os.getenv("OPENAI_API_KEY"): raise HTTPException(500, ...)
CheckKey ==
    /\ pc = "check"
    /\ IF KeyConfigured(env_key)
       THEN pc' = "context" /\ exc' = exc
       ELSE /\ pc' = "except"
            /\ exc' = HTTPException(500, <<"API Key OpenAI nao configurada">>)
    /\ UNCHANGED <<env_key, pydantic_major, dados, contexto, calls, upstream,
                   resultado_raw, resultado_json, idx, kwargs, argumentos, outcome>>

\* contexto_estruturado = f"""..."""
BuildContext ==
    /\ pc = "context"
    /\ contexto' = Contexto(dados)
    /\ pc' = "call"
    /\ UNCHANGED <<env_key, pydantic_major, dados, calls, upstream, resultado_raw,
                   resultado_json, idx, kwargs, argumentos, exc, outcome>>

\* response = openai.chat.completions.create(...);
\* resultado_raw = response.choices[0].message.content
CallModel ==
    /\ pc = "call"
    /\ calls' = calls + 1
    /\ \E r \in Replies :
          /\ upstream' = r
          /\ IF r.kind = "raise"
             THEN /\ exc' = PyError("OpenAIError", "Connection error.")
                  /\ pc' = "except"
                  /\ resultado_raw' = resultado_raw
             ELSE /\ resultado_raw' = r
                  /\ pc' = "parse"
                  /\ exc' = exc
    /\ UNCHANGED <<env_key, pydantic_major, dados, contexto, resultado_json, idx,
                   kwargs, argumentos, outcome>>

\* resultado_json = json.loads(resultado_raw)
Parse ==
    /\ pc = "parse"
    /\ IF JsonLoadsRaises(resultado_raw) = "none"
       THEN /\ resultado_json' = resultado_raw.value
            /\ pc' = "branch"
            /\ exc' = exc
       ELSE /\ exc' = PyError(JsonLoadsRaises(resultado_raw), "Expecting value")
            /\ pc' = "except"
            /\ resultado_json' = resultado_json
    /\ UNCHANGED <<env_key, pydantic_major, dados, contexto, calls, upstream,
                   resultado_raw, idx, kwargs, argumentos, outcome>>

\* if not resultado_json.get("argumentos"): return ResultadoFinal(...)
Branch ==
    /\ pc = "branch"
    /\ IF ~resultado_json.isdict
       THEN /\ exc' = PyError("AttributeError", "object has no attribute 'get'")
            /\ pc' = "except"
            /\ UNCHANGED <<outcome, idx, argumentos>>
       ELSE IF Falsy(resultado_json.argumentos)
       THEN /\ outcome' = Returned(ResultadoVazio(dados))
            /\ pc' = "done"
            /\ UNCHANGED <<exc, idx, argumentos>>
       ELSE /\ argumentos' = <<>>
            /\ idx' = 1
            /\ pc' = "loop"
            /\ UNCHANGED <<exc, outcome>>
    /\ UNCHANGED <<env_key, pydantic_major, dados, contexto, calls, upstream,
                   resultado_raw, resultado_json, kwargs>>

\* for arg_data in resultado_json["argumentos"]: the next element, and the
\* keyword arguments of Argumento(...) evaluated from it
Loop ==
    /\ pc = "loop"
    /\ LET a == resultado_json.argumentos IN
       IF a.t # "list"
       THEN /\ exc' = PyError("TypeError", "object is not iterable")
            /\ pc' = "except"
            /\ kwargs' = kwargs
       ELSE IF idx > Len(a.items)
       THEN /\ pc' = "assemble"
            /\ UNCHANGED <<exc, kwargs>>
       ELSE IF ~a.items[idx].isdict
       THEN /\ exc' = PyError("AttributeError", "object has no attribute 'get'")
            /\ pc' = "except"
            /\ kwargs' = kwargs
       ELSE IF RelevanciaRaises(a.items[idx].relevancia)
       THEN /\ exc' = PyError("TypeError", "'>' not supported between instances")
            /\ pc' = "except"
            /\ kwargs' = kwargs
       ELSE /\ kwargs' = ArgumentoKwargs(a.items[idx])
            /\ pc' = "construct"
            /\ exc' = exc
    /\ UNCHANGED <<env_key, pydantic_major, dados, contexto, calls, upstream,
                   resultado_raw, resultado_json, idx, argumentos, outcome>>

\* argumento = Argumento(...); argumentos.append(argumento)
Construct ==
    /\ pc = "construct"
    /\ IF ArgumentoOk(kwargs, pydantic_major)
       THEN /\ argumentos' = Append(argumentos, ArgumentoOf(kwargs))
            /\ idx' = idx + 1
            /\ pc' = "loop"
            /\ exc' = exc
       ELSE /\ exc' = PyError("ValidationError", "validation error for Argumento")
            /\ pc' = "except"
            /\ UNCHANGED <<argumentos, idx>>
    /\ UNCHANGED <<env_key, pydantic_major, dados, contexto, calls, upstream,
                   resultado_raw, resultado_json, kwargs, outcome>>

\* resultado = ResultadoFinal(...); return resultado
Assemble ==
    /\ pc = "assemble"
    /\ IF ConfiancaRaises(resultado_json.confianca)
       THEN /\ exc' = PyError("TypeError", "'>' not supported between instances")
            /\ pc' = "except"
            /\ outcome' = outcome
       ELSE IF ~ResultadoOk(ResultadoKwargs(resultado_json))
       THEN /\ exc' = PyError("ValidationError", "validation error for ResultadoFinal")
            /\ pc' = "except"
            /\ outcome' = outcome
       ELSE /\ LET kw == ResultadoKwargs(resultado_json) IN
               outcome' = Returned(ResultadoFinal(dados.processo_id, "SUCESSO", argumentos,
                                                  kw.resumo.s, kw.confianca, kw.alertas.l))
            /\ pc' = "done"
            /\ exc' = exc
    /\ UNCHANGED <<env_key, pydantic_major, dados, contexto, calls, upstream,
                   resultado_raw, resultado_json, idx, kwargs, argumentos>>

\* except json.JSONDecodeError as e: raise HTTPException(422, ...)
ExceptJSONDecodeError ==
    /\ pc = "except"
    /\ ExceptClause(exc.type) = "JSONDecodeError"
    /\ \E s \in StrOf(exc) :
          outcome' = Failed(422, <<"Erro na estruturacao da resposta JSON: ">> \o s)
    /\ pc' = "done"
    /\ UNCHANGED <<env_key, pydantic_major, dados, contexto, calls, upstream,
                   resultado_raw, resultado_json, idx, kwargs, argumentos, exc>>

\* except openai.OpenAIError as e: raise HTTPException(503, ...)
ExceptOpenAIError ==
    /\ pc = "except"
    /\ ExceptClause(exc.type) = "OpenAIError"
    /\ \E s \in StrOf(exc) :
          outcome' = Failed(503, <<"Erro na API OpenAI: ">> \o s)
    /\ pc' = "done"
    /\ UNCHANGED <<env_key, pydantic_major, dados, contexto, calls, upstream,
                   resultado_raw, resultado_json, idx, kwargs, argumentos, exc>>

\* except Exception as e: raise HTTPException(500, ...)
ExceptException ==
    /\ pc = "except"
    /\ ExceptClause(exc.type) = "Exception"
    /\ \E s \in StrOf(exc) :
          outcome' = Failed(500, <<"Erro interno do servidor: ">> \o s)
    /\ pc' = "done"
    /\ UNCHANGED <<env_key, pydantic_major, dados, contexto, calls, upstream,
                   resultado_raw, resultado_json, idx, kwargs, argumentos, exc>>

Next ==
    \/ PostAnalisar
    \/ PostTeste
    \/ CheckKey
    \/ BuildContext
    \/ CallModel
    \/ Parse
    \/ Branch
    \/ Loop
    \/ Construct
    \/ Assemble
    \/ ExceptJSONDecodeError
    \/ ExceptOpenAIError
    \/ ExceptException

Spec == Init /\ [][Next]_vars

(***************************************************************************)
(* Vocabulary of the properties.                                           *)
(***************************************************************************)
Done == pc = "done"
Got == outcome.kind = "result"
\* the call was made and its reply decoded to a JSON object
DecodedObj == calls = 1 /\ upstream.kind = "text" /\ upstream.valid /\ upstream.value.isdict
ReplyArgs == upstream.value.argumentos
Min(a, b) == IF a <= b THEN a ELSE b
\* the credential is absent: the variable is unset or empty
NoCredential == env_key = "None" \/ env_key = ""

\* a number of the closed interval [0.0, 1.0]
InUnit(c) == c.t = "num" /\ 0 <= c.n /\ c.n <= 10

FieldNames ==
    {"categoria", "fundamento_legal", "argumento", "evidencias", "relevancia",
     "pagina_referencia"}
\* a field that is present, of its declared type and in range
FieldFine(f, v) ==
    IF f = "categoria" THEN v.t = "str" /\ v.s \in CATEGORIAS
    ELSE IF f = "evidencias" THEN v.t = "list"
    ELSE IF f = "relevancia" THEN v.t = "num" /\ v.isint /\ 10 <= v.n /\ v.n <= 100
    ELSE v.t = "str"
AnomalousFields(e) == {f \in FieldNames : ~FieldFine(f, e[f])}
\* an element whose present fields all have their declared type
WellFormedElem(e) ==
    /\ e.isdict
    /\ \A f \in FieldNames :
          \/ e[f].t = "absent"
          \/ IF f = "evidencias" THEN e[f].t = "list"
             ELSE IF f = "relevancia" THEN e[f].t = "num" /\ e[f].isint
             ELSE e[f].t = "str"
WellFormedTop(v) == v.resumo.t = "str" /\ InUnit(v.confianca) /\ v.alertas.t = "list"

(***************************************************************************)
(* C1. Whenever analisar_impugnacao returns a ResultadoFinal, every        *)
(* argument's relevancia is an integer of 1..10 and confianca is a number  *)
(* of [0.0, 1.0], whatever the decoded reply carried in those fields.      *)
(***************************************************************************)
C1_RangesAlways ==
    (Done /\ Got) =>
        /\ \A i \in 1..Len(outcome.result.argumentos) :
              outcome.result.argumentos[i].relevancia \in 1..10
        /\ InUnit(outcome.result.confianca)

(***************************************************************************)
(* C2. The relevancia passed to Argumento equals the reference function of *)
(* the element's relevancia r: 5 when the key is absent, 1 when r <= 1,    *)
(* 10 when r >= 10, r itself in between; and for an integer or absent r    *)
(* that is the relevancia of the argument built from the element.          *)
(***************************************************************************)
RefRelevancia(v) ==
    IF v.t = "absent" THEN 50
    ELSE IF v.n <= 10 THEN 10
    ELSE IF v.n >= 100 THEN 100
    ELSE v.n
C2_RelevanciaReference ==
    /\ pc = "construct" =>
          LET v == resultado_json.argumentos.items[idx].relevancia IN
          v.t \in {"absent", "num"} =>
              kwargs.relevancia.t = "num" /\ kwargs.relevancia.n = RefRelevancia(v)
    /\ pc \in {"loop", "construct", "assemble", "done"} =>
          \A i \in 1..Len(argumentos) :
              LET v == resultado_json.argumentos.items[i].relevancia IN
              (v.t = "absent" \/ (v.t = "num" /\ v.isint)) =>
                  10 * argumentos[i].relevancia = RefRelevancia(v)
C2_Witness ==
    /\ Done /\ Got
    /\ Len(outcome.result.argumentos) = 2
    /\ ReplyArgs.items[1].relevancia = JInt(0)
    /\ outcome.result.argumentos[1].relevancia = 1
    /\ ReplyArgs.items[2].relevancia = JInt(11)
    /\ outcome.result.argumentos[2].relevancia = 10

(***************************************************************************)
(* C3. With the credential present and a reply that decodes to an object   *)
(* whose "argumentos" is missing or an empty list, the request never fails *)
(* and returns status NENHUM_ARGUMENTO_IDENTIFICADO, no argument,          *)
(* confianca 0.1, exactly one alert and the request's processo_id,         *)
(* whatever resumo, confianca and alertas the object carries.              *)
(***************************************************************************)
NoArguments ==
    /\ ~NoCredential
    /\ DecodedObj
    /\ (ReplyArgs.t = "absent" \/ (ReplyArgs.t = "list" /\ ReplyArgs.items = <<>>))
C3_EmptyBranch ==
    NoArguments =>
        /\ pc # "except"
        /\ exc = NoExc
        /\ Done =>
              /\ Got
              /\ outcome.result.status = "NENHUM_ARGUMENTO_IDENTIFICADO"
              /\ outcome.result.argumentos = <<>>
              /\ outcome.result.confianca = JFloat(1)
              /\ Len(outcome.result.alertas) = 1
              /\ outcome.result.processo_id = dados.processo_id
C3_Witness ==
    /\ Done /\ Got /\ NoArguments
    /\ ReplyArgs.t = "list"
    /\ upstream.value.alertas = JList(<<"w1", "w2">>)
    /\ dados.processo_id = "P-2"

(***************************************************************************)
(* C4. When the decoded object has a non-empty "argumentos" list of        *)
(* well-formed elements, the request returns status SUCESSO with as many   *)
(* arguments as the list has elements, the i-th built from the i-th.       *)
(***************************************************************************)
C4_SuccessInOrder ==
    (/\ Done
     /\ DecodedObj
     /\ ReplyArgs.t = "list"
     /\ ReplyArgs.items # <<>>
     /\ \A i \in 1..Len(ReplyArgs.items) : WellFormedElem(ReplyArgs.items[i]))
    =>
        /\ Got
        /\ outcome.result.status = "SUCESSO"
        /\ Len(outcome.result.argumentos) = Len(ReplyArgs.items)
        /\ \A i \in 1..Len(ReplyArgs.items) :
              outcome.result.argumentos[i] = ArgumentoOf(ArgumentoKwargs(ReplyArgs.items[i]))

(***************************************************************************)
(* C5. A request handled without the credential fails with status 500      *)
(* having made no call to the model service; a request handled with the    *)
(* credential makes exactly one call on every path; no request makes more  *)
(* than one.                                                               *)
(***************************************************************************)
C5_CallCount ==
    /\ calls \in {0, 1}
    /\ pc \in {"idle", "check", "context", "call"} => calls = 0
    /\ (Done /\ NoCredential) =>
          calls = 0 /\ outcome.kind = "error" /\ outcome.status_code = 500
    /\ (Done /\ ~NoCredential) => calls = 1
C5_Witness ==
    /\ Done
    /\ calls = 1
    /\ outcome.kind = "error"
    /\ outcome.status_code = 500
    /\ exc.type = "ValidationError"

(***************************************************************************)
(* C6. Reply text that is not valid JSON ends in status 422, an error      *)
(* raised by the outbound call in status 503, any other exception in       *)
(* status 500; a failed request returns no ResultadoFinal.                 *)
(***************************************************************************)
C6_FailureClasses ==
    Done =>
        /\ upstream = ReplyBadText => (outcome.kind = "error" /\ outcome.status_code = 422)
        /\ upstream = ReplyRaise => (outcome.kind = "error" /\ outcome.status_code = 503)
        /\ exc.type \notin {"none", "JSONDecodeError", "OpenAIError"} =>
              (outcome.kind = "error" /\ outcome.status_code = 500)
        /\ exc # NoExc => (outcome.kind = "error" /\ outcome.result = NoResult)
        /\ exc = NoExc => Got
C6_Witness ==
    /\ Done
    /\ upstream = ReplyBadText
    /\ exc.type = "JSONDecodeError"
    /\ outcome.status_code = 422

(***************************************************************************)
(* C7. A missing credential reaches the caller as the configuration        *)
(* failure itself: the detail raised by the credential check, verbatim,    *)
(* not re-labelled by the handler of unexpected exceptions.                *)
(***************************************************************************)
C7_ConfigErrorVerbatim ==
    (Done /\ NoCredential) =>
        /\ outcome.kind = "error"
        /\ outcome.status_code = 500
        /\ outcome.detail = <<"API Key OpenAI nao configurada">>

(***************************************************************************)
(* C8. With a non-empty "argumentos" list in which a single field of one   *)
(* element is missing, out of range or malformed, the request does not     *)
(* fail: the argument is still included and the status is SUCESSO.         *)
(***************************************************************************)
SingleFieldAnomaly ==
    /\ DecodedObj
    /\ WellFormedTop(upstream.value)
    /\ ReplyArgs.t = "list"
    /\ ReplyArgs.items # <<>>
    /\ \A i \in 1..Len(ReplyArgs.items) : ReplyArgs.items[i].isdict
    /\ \E i \in 1..Len(ReplyArgs.items) :
          /\ Cardinality(AnomalousFields(ReplyArgs.items[i])) = 1
          /\ \A j \in 1..Len(ReplyArgs.items) :
                j # i => AnomalousFields(ReplyArgs.items[j]) = {}
C8_FieldAnomalyNeverFails ==
    SingleFieldAnomaly =>
        /\ pc # "except"
        /\ Done =>
              /\ Got
              /\ outcome.result.status = "SUCESSO"
              /\ Len(outcome.result.argumentos) = Len(ReplyArgs.items)

(***************************************************************************)
(* C9. The document placed in the outbound context is exactly the first    *)
(* min(len, 4000) characters of texto_impugnacao; building the context     *)
(* raises nothing, and the alerts of a returned result are those of the    *)
(* reply (or the fixed one of the empty branch): none is added for length. *)
(***************************************************************************)
C9_Truncation ==
    /\ pc = "call" =>
          /\ exc = NoExc
          /\ TextLen(contexto.documento) = Min(TextLen(dados.texto_impugnacao), LIMITE_TEXTO)
          /\ \A i \in 1..TextLen(contexto.documento) :
                CharAt(contexto.documento, i) = CharAt(dados.texto_impugnacao, i)
    /\ (Done /\ Got) =>
          outcome.result.alertas =
              IF outcome.result.status = "SUCESSO"
              THEN DictGet(upstream.value.alertas, JList(<<>>)).l
              ELSE <<"Texto pode estar truncado ou sem argumentos juridicos claros">>
C9_Witness ==
    /\ Done /\ Got
    /\ TextLen(dados.texto_impugnacao) > LIMITE_TEXTO
    /\ TextLen(contexto.documento) = LIMITE_TEXTO
    /\ outcome.result.status = "SUCESSO"
    /\ outcome.result.alertas = <<>>

(***************************************************************************)
(* C10. Every argument of a returned result has a categoria of the fixed   *)
(* seven-value enumeration, OUTROS when the element has none, for any      *)
(* categoria the model produced.                                           *)
(***************************************************************************)
C10_CategoriaInEnum ==
    (Done /\ Got) =>
        \A i \in 1..Len(outcome.result.argumentos) :
            /\ outcome.result.argumentos[i].categoria \in CATEGORIAS
            /\ ReplyArgs.items[i].categoria.t = "absent" =>
                  outcome.result.argumentos[i].categoria = "OUTROS"

====
